---- MODULE Spec2Model ----
(***************************************************************************)
(* unique_handle<Traits> (src/SmartClasses.h): a resource manager that     *)
(* owns one HANDLE value and closes it through its Traits class.           *)
(*                                                                         *)
(* A HANDLE is modelled as an integer: nullptr is 0, INVALID_HANDLE_VALUE  *)
(* is -1, every other value an identifier handed out by the system.        *)
(* m_value maps every unique_handle object whose lifetime has begun and    *)
(* not ended to the value of its m_value member; closed is the sequence    *)
(* of values Traits::close has been called with.                           *)
(***************************************************************************)
EXTENDS Integers, Sequences, FiniteSets, TLC

\* ---------------------------------------------------------------- bounds
\* Number of unique_handle objects that can be alive at the same time.
NumHandles == 2
\* System identifiers are 1..MaxId.
MaxId == 1
\* How many times in one run an identifier is passed to a constructor or to reset.
MaxPasses == 2

\* How many reset calls one run of the single-object scenario makes.
MaxResets == 4

\* How many Open and Prepare calls one run of the SQLite wrappers makes.
MaxCalls == 3

\* How many rows the last query of main returns at most.
MaxRows == 2

\* FileMappingDemo: the system hands out the handle and pointer values 1..MaxValue.
MaxValue == 3

\* towerOfHanoi is called with 0..MaxDisks disks.
MaxDisks == 4

\* ------------------------------------------------------- program constants
nullptr == 0
INVALID_HANDLE_VALUE == -1

Handles == 1..NumHandles
Pointers == {INVALID_HANDLE_VALUE, nullptr} \cup (1..MaxId)
TraitsClasses == {"null_handle_traits", "invalid_handle_traits"}

VARIABLES
    Traits,      \* the Traits template argument of the instantiation
    m_value,     \* live unique_handle object -> its m_value member
    closed,      \* the values Traits::close was called with, in call order
    introduced,  \* value -> times it was passed to unique_handle(value) / reset(value)
    taken,       \* values release() has returned to a caller
    aliased,     \* values passed to a ctor / reset while another object held them
    last,        \* the most recent operation: its arguments, the state before, its result
    trace,       \* single-object scenario: the calls made so far
    build,       \* "debug" (_DEBUG defined) or "release"
    halted,      \* execution has stopped at a failed assertion
    closeFailed, \* the CloseHandle call of the last operation returned false
    handle,      \* SQLite wrappers: live unique_handle object -> its m_value
    events,      \* the SQLite library calls made, in call order
    made,        \* how many connection and statement objects SQLite has created
    asserted,    \* every ASSERT(!*this) of get_address_of has held
    lastCall,    \* the last Open / Prepare call: its outcome and the state before
    pc,          \* where main is
    rows,        \* how many rows the last statement of main has returned
    demo,        \* FileMappingDemo: where it is, its objects, the API calls made
    sw,          \* SwapHandles: where it is, the handles before the swap and now
    pair,        \* the two unique_handle classes driven by the same operations
    par,         \* parallelism demo: main, its threads, the counters, the output
    hanoi        \* towerOfHanoi: the call stack, the moves made, the pegs

\* The variables of the unique_handle runs, and those of the other runs.
handleVars == <<Traits, m_value, closed, introduced, taken, aliased, last>>
scenarioVars == <<trace>>
verifyVars == <<build, halted, closeFailed>>
sqlVars == <<handle, events, made, asserted, lastCall, pc, rows>>
exampleVars == <<demo, sw, pair, par, hanoi>>
otherVars == <<scenarioVars, verifyVars, sqlVars, exampleVars>>
vars == <<handleVars, otherVars>>

\* ------------------------------------------------------------ Traits
\* Traits::invalid()
invalid ==
    IF Traits = "null_handle_traits" THEN nullptr ELSE INVALID_HANDLE_VALUE

\* The object state the member functions work on:
\*   m    : object -> m_value,
\*   log  : the Traits::close calls so far,
\*   snap : for each Traits::close call of the running operation, the
\*          m_value members at the moment of the call.
\* Traits::close(value): VERIFY(CloseHandle(value))
Traits_close(s, value) ==
    [s EXCEPT !.log = Append(@, value), !.snap = Append(@, s.m)]

\* ------------------------------------------------------ unique_handle
\* operator bool() that tests against nullptr whatever the Traits class.
operator_bool_tests_null(s, h) ==
    s.m[h] # nullptr

\* explicit operator bool() const
operator_bool(s, h) ==
    s.m[h] # invalid

\* pointer get() const
get(s, h) ==
    s.m[h]

\* get() that gives the handle away, as release() does.
call_get_releases(s, h) ==
    [st |-> [s EXCEPT !.m[h] = invalid], ret |-> s.m[h]]

\* A call of get(), a const member function: [st |-> the state after,
\* ret |-> the returned pointer]
call_get(s, h) ==
    [st |-> s, ret |-> get(s, h)]

\* A call of operator bool(), a const member function: [st |-> the state
\* after, ret |-> the returned bool]
call_operator_bool(s, h) ==
    [st |-> s, ret |-> operator_bool(s, h)]

\* close() without the validity test.
close_unchecked(s, h) ==
    Traits_close(s, s.m[h])

\* void close()
close(s, h) ==
    IF operator_bool(s, h) THEN Traits_close(s, s.m[h]) ELSE s

\* release() that returns the value and keeps holding it.
release_keeps(s, h) ==
    [st |-> s, ret |-> s.m[h]]

\* release() that closes the handle it gives away.
release_closes(s, h) ==
    LET value == s.m[h]
    IN  [st |-> [close(s, h) EXCEPT !.m[h] = invalid], ret |-> value]

\* pointer release(): [st |-> the state after, ret |-> the returned value]
release(s, h) ==
    LET value == s.m[h]
    IN  [st |-> [s EXCEPT !.m[h] = invalid], ret |-> value]

\* reset() that stores the new value before closing.
reset_stores_first(s, h, value) ==
    LET s1 == IF s.m[h] # value
              THEN close([s EXCEPT !.m[h] = value], h)
              ELSE s
    IN  [st |-> s1, ret |-> operator_bool(s1, h)]

\* reset() without the test for the same handle.
reset_always(s, h, value) ==
    LET s1 == [close(s, h) EXCEPT !.m[h] = value]
    IN  [st |-> s1, ret |-> operator_bool(s1, h)]

\* reset() that returns whether it replaced the handle.
reset_returns_changed(s, h, value) ==
    LET changed == s.m[h] # value
        s1 == IF changed
              THEN [close(s, h) EXCEPT !.m[h] = value]
              ELSE s
    IN  [st |-> s1, ret |-> changed]

\* bool reset(pointer value): [st |-> the state after, ret |-> the returned bool]
reset(s, h, value) ==
    LET s1 == IF s.m[h] # value
              THEN [close(s, h) EXCEPT !.m[h] = value]
              ELSE s
    IN  [st |-> s1, ret |-> operator_bool(s1, h)]

\* A constructor that ignores its argument: m_value{ Traits::invalid() }.
unique_handle_ignores_value(s, h, value) ==
    [s EXCEPT !.m = [x \in DOMAIN s.m \cup {h} |-> IF x = h THEN invalid ELSE s.m[x]]]

\* explicit unique_handle(pointer value = Traits::invalid())
unique_handle(s, h, value) ==
    [s EXCEPT !.m = [x \in DOMAIN s.m \cup {h} |-> IF x = h THEN value ELSE s.m[x]]]

\* A move constructor that copies other's handle.
unique_handle_copy(s, h, other) ==
    unique_handle(s, h, get(s, other))

\* unique_handle(unique_handle&& other)
unique_handle_move(s, h, other) ==
    LET r == release(s, other)
    IN  unique_handle(r.st, h, r.ret)

\* Move assignment that overwrites m_value without closing it.
operator_assign_leaks(s, h, other) ==
    IF h # other
    THEN LET r == release(s, other)
         IN  [r.st EXCEPT !.m[h] = r.ret]
    ELSE s

\* Move assignment without the test for self-assignment, written out as
\* close(); m_value = other.m_value; other.m_value = Traits::invalid().
operator_assign_no_self_test(s, h, other) ==
    LET s1 == close(s, h)
        s2 == [s1 EXCEPT !.m[h] = s1.m[other]]
    IN  [s2 EXCEPT !.m[other] = invalid]

\* unique_handle& operator=(unique_handle&& other)
operator_assign(s, h, other) ==
    IF h # other
    THEN LET r == release(s, other)
         IN  reset(r.st, h, r.ret).st
    ELSE s

\* ~unique_handle(): close(), then the object's lifetime ends
dtor_unique_handle(s, h) ==
    LET s1 == close(s, h)
    IN  [s1 EXCEPT !.m = [x \in DOMAIN s1.m \ {h} |-> s1.m[x]]]

\* swap() that only assigns one way.
swap_one_way(s, h, other) ==
    [s EXCEPT !.m[h] = s.m[other]]

\* void swap(unique_handle<Traits>& other): std::swap(m_value, other.m_value)
swap(s, h, other) ==
    [s EXCEPT !.m[h] = s.m[other], !.m[other] = s.m[h]]

\* non-member swap(left, right): left.swap(right)
swap_nonmember(s, left, right) ==
    swap(s, left, right)

\* ------------------------------------------------------------ the run
\* The state an operation starts from.
Cur == [m |-> m_value, log |-> closed, snap |-> <<>>]

Live == DOMAIN m_value

\* A value that is a resource identifier for the instantiation's Traits.
IsResource(v) == v # invalid

\* Passing v to a constructor or to reset, as object h.
RECURSIVE Sum(_, _, _)
Sum(f, lo, hi) ==
    IF lo > hi THEN 0 ELSE f[lo] + Sum(f, lo + 1, hi)
CanPass(v) ==
    IsResource(v) => Sum(introduced, INVALID_HANDLE_VALUE, MaxId) < MaxPasses
Pass(h, v) ==
    /\ introduced' = IF IsResource(v)
                     THEN [introduced EXCEPT ![v] = @ + 1]
                     ELSE introduced
    /\ aliased' = IF IsResource(v) /\ \E x \in Live \ {h} : m_value[x] = v
                  THEN aliased \cup {v}
                  ELSE aliased

\* What every operation records: op, the object, the other object (or the
\* object itself), the value argument, the state before (pre, log, and rel:
\* whether the operation before was release() on the same object), the result (ret: a returned
\* pointer, ok: a returned bool), and the m_value members at each
\* Traits::close call the operation made.
Record(op, h, other, value, s1, ret, ok) ==
    /\ m_value' = s1.m
    /\ closed' = s1.log
    /\ last' = [op |-> op, self |-> h, other |-> other, value |-> value,
                pre |-> m_value, log |-> closed, rel |-> (last.op = "release" /\ last.self = h),
                snap |-> s1.snap,
                ret |-> ret, ok |-> ok]

\* The examples that are not running.
ExamplesIdle ==
    /\ demo = [pc |-> "none"]
    /\ sw = [pc |-> "none"]
    /\ pair = [passes |-> 0]
    /\ par = [main |-> "none"]
    /\ hanoi = [pc |-> "none"]

Init ==
    /\ ExamplesIdle
    /\ Traits \in TraitsClasses
    /\ m_value = [h \in {} |-> nullptr]
    /\ closed = <<>>
    /\ introduced = [v \in Pointers |-> 0]
    /\ taken = {}
    /\ aliased = {}
    /\ trace = <<>>
    /\ build = "release"
    /\ halted = FALSE
    /\ closeFailed = FALSE
    /\ handle = << >>
    /\ events = << >>
    /\ made = 0
    /\ asserted = TRUE
    /\ lastCall = [name |-> "none"]
    /\ pc = "none"
    /\ rows = 0
    /\ last = [op |-> "none", self |-> 0, other |-> 0, value |-> nullptr,
               pre |-> [h \in {} |-> nullptr], log |-> <<>>, rel |-> FALSE,
               snap |-> <<>>,
               ret |-> nullptr, ok |-> FALSE]

\* null_handle h{ value };   (null_handle h{} passes Traits::invalid())
Construct(h, v) ==
    /\ h \notin Live
    /\ CanPass(v)
    /\ Pass(h, v)
    /\ Record("construct", h, h, v, unique_handle(Cur, h, v), invalid, FALSE)
    /\ UNCHANGED <<Traits, taken>>
    /\ UNCHANGED otherVars

\* auto h = null_handle{ std::move(other) };
MoveConstruct(h, other) ==
    /\ h \notin Live
    /\ other \in Live
    /\ Record("move_construct", h, other, m_value[other],
              unique_handle_move(Cur, h, other), invalid, FALSE)
    /\ UNCHANGED <<Traits, introduced, taken, aliased>>
    /\ UNCHANGED otherVars

\* h = std::move(other);
MoveAssign(h, other) ==
    /\ h \in Live
    /\ other \in Live
    /\ Record("move_assign", h, other, m_value[other],
              operator_assign(Cur, h, other), invalid, FALSE)
    /\ UNCHANGED <<Traits, introduced, taken, aliased>>
    /\ UNCHANGED otherVars

\* h goes out of scope
Destroy(h) ==
    /\ h \in Live
    /\ Record("destroy", h, h, m_value[h], dtor_unique_handle(Cur, h), invalid, FALSE)
    /\ UNCHANGED <<Traits, introduced, taken, aliased>>
    /\ UNCHANGED otherVars

\* HANDLE danger = h.release();
Release(h) ==
    /\ h \in Live
    /\ LET r == release(Cur, h)
       IN  /\ Record("release", h, h, m_value[h], r.st, r.ret, FALSE)
           /\ taken' = IF IsResource(r.ret) THEN taken \cup {r.ret} ELSE taken
    /\ UNCHANGED <<Traits, introduced, aliased>>
    /\ UNCHANGED otherVars

\* h.reset(value);   (h.reset() passes Traits::invalid())
Reset(h, v) ==
    /\ h \in Live
    /\ CanPass(v)
    /\ Pass(h, v)
    /\ LET r == reset(Cur, h, v)
       IN  Record("reset", h, h, v, r.st, invalid, r.ret)
    /\ UNCHANGED <<Traits, taken>>
    /\ UNCHANGED otherVars

\* swap(h, other);   h.swap(other);
Swap(h, other) ==
    /\ h \in Live
    /\ other \in Live
    /\ Record("swap", h, other, m_value[other],
              swap_nonmember(Cur, h, other), invalid, FALSE)
    /\ UNCHANGED <<Traits, introduced, taken, aliased>>
    /\ UNCHANGED otherVars

\* SetEvent(h.get());
Get(h) ==
    /\ h \in Live
    /\ LET r == call_get(Cur, h)
       IN  Record("get", h, h, m_value[h], r.st, r.ret, FALSE)
    /\ UNCHANGED <<Traits, introduced, taken, aliased>>
    /\ UNCHANGED otherVars

\* if (h) ...   ASSERT(h);
IsValid(h) ==
    /\ h \in Live
    /\ LET r == call_operator_bool(Cur, h)
       IN  Record("bool", h, h, m_value[h], r.st, invalid, r.ret)
    /\ UNCHANGED <<Traits, introduced, taken, aliased>>
    /\ UNCHANGED otherVars

Next ==
    \/ \E h \in Handles, v \in Pointers : Construct(h, v)
    \/ \E h \in Handles, o \in Handles : MoveConstruct(h, o)
    \/ \E h \in Handles, o \in Handles : MoveAssign(h, o)
    \/ \E h \in Handles : Destroy(h)
    \/ \E h \in Handles : Release(h)
    \/ \E h \in Handles, v \in Pointers : Reset(h, v)
    \/ \E h \in Handles, o \in Handles : Swap(h, o)
    \/ \E h \in Handles : Get(h)
    \/ \E h \in Handles : IsValid(h)

Spec == Init /\ [][Next]_vars

\* ------------------------------------------------------------ claims
\* The number of Traits::close calls made with v.
Count(seq, v) == Cardinality({i \in 1..Len(seq) : seq[i] = v})

\* The objects that hold v.
Holders(v) == {h \in Live : m_value[h] = v}

\* The Traits::close calls of the last operation.
NoCall == closed = last.log
OneCall(v) == closed = Append(last.log, v)

\* C1: an identifier passed once to a constructor or to reset and never
\* returned by release() is never closed twice, and has been closed exactly
\* once when no unique_handle object is left.
C1_ClosedExactlyOnce ==
    \A v \in Pointers :
        (IsResource(v) /\ introduced[v] = 1 /\ v \notin taken)
            => /\ Count(closed, v) <= 1
               /\ (Live = {} => Count(closed, v) = 1)

\* C1 witness: an identifier was passed once and had been closed once
\* when the last object was destroyed.
C1_Witness ==
    /\ Live = {}
    /\ last.op = "destroy"
    /\ IsResource(last.value)
    /\ introduced[last.value] = 1
    /\ last.value \notin taken
    /\ Count(closed, last.value) = 1

\* C2 (as stated): no resource identifier is held by more than one object.
C2_NoDuplicateOwnership ==
    \A v \in Pointers : IsResource(v) => Cardinality(Holders(v)) <= 1

\* C2 (amended): a resource identifier is held by more than one object only
\* if it was passed to a constructor or to reset while another object held it.
C2_NoImplicitDuplication ==
    \A v \in Pointers :
        (IsResource(v) /\ v \notin aliased) => Cardinality(Holders(v)) <= 1

\* C2 witness: a move has handed a resource identifier to another object,
\* which is now its only holder.
C2_Witness ==
    /\ last.op \in {"move_construct", "move_assign"}
    /\ last.self # last.other
    /\ IsResource(last.value)
    /\ last.value \notin aliased
    /\ Holders(last.value) = {last.self}

\* C3: the destructor of an object holding a value other than
\* Traits::invalid() calls Traits::close once, with that value; the
\* destructor of an object holding Traits::invalid() does not call it.
C3_Destroy ==
    last.op = "destroy" =>
        IF last.pre[last.self] # invalid
        THEN OneCall(last.pre[last.self])
        ELSE NoCall

\* C3 witness: an object holding a resource identifier was destroyed.
C3_Witness ==
    /\ last.op = "destroy"
    /\ last.pre[last.self] # invalid
    /\ OneCall(last.pre[last.self])

\* C4: reset(v2) on an object holding a valid v1 # v2 calls Traits::close
\* once, with v1, while the object still holds v1, and then holds v2.
C4_ResetDifferent ==
    (/\ last.op = "reset"
     /\ last.pre[last.self] # invalid
     /\ last.pre[last.self] # last.value)
        => /\ OneCall(last.pre[last.self])
           /\ Len(last.snap) = 1
           /\ last.snap[1][last.self] = last.pre[last.self]
           /\ get(Cur, last.self) = last.value

\* C4 witness: reset replaced one resource identifier by another.
C4_Witness ==
    /\ last.op = "reset"
    /\ last.pre[last.self] # invalid
    /\ IsResource(last.value)
    /\ last.pre[last.self] # last.value
    /\ get(Cur, last.self) = last.value

\* C5: reset(v) on an object that holds v calls Traits::close zero times
\* and changes no m_value; so does reset() on an object that holds
\* Traits::invalid(), every time.
C5_ResetSame ==
    (last.op = "reset" /\ last.pre[last.self] = last.value)
        => NoCall /\ m_value = last.pre

\* C5 witness: reset was called with the resource identifier already held.
C5_Witness ==
    /\ last.op = "reset"
    /\ last.pre[last.self] = last.value
    /\ IsResource(last.value)

\* C6 (as stated): move assignment to a different object closes any valid
\* value the target held, once; the target then holds the source's value
\* and the source holds Traits::invalid().
C6_MoveAssignCloses ==
    (last.op = "move_assign" /\ last.self # last.other)
        => /\ IF last.pre[last.self] # invalid
              THEN OneCall(last.pre[last.self])
              ELSE NoCall
           /\ m_value[last.self] = last.pre[last.other]
           /\ m_value[last.other] = invalid

\* C6 (amended): move assignment to a different object closes the valid
\* value the target held, once, unless the source holds the same value, in
\* which case nothing is closed; the target then holds the source's value
\* and the source holds Traits::invalid().
C6_MoveAssign ==
    (last.op = "move_assign" /\ last.self # last.other)
        => /\ IF /\ last.pre[last.self] # invalid
                 /\ last.pre[last.self] # last.pre[last.other]
              THEN OneCall(last.pre[last.self])
              ELSE NoCall
           /\ m_value[last.self] = last.pre[last.other]
           /\ m_value[last.other] = invalid

\* C6 witness: a resource identifier was move-assigned onto an object that
\* held another one.
C6_Witness ==
    /\ last.op = "move_assign"
    /\ last.self # last.other
    /\ last.pre[last.self] # invalid
    /\ last.pre[last.other] # invalid
    /\ last.pre[last.self] # last.pre[last.other]
    /\ OneCall(last.pre[last.self])

\* C7: move construction leaves the source holding Traits::invalid() and
\* the new object holding the source's value, and calls Traits::close zero
\* times.
C7_MoveConstruct ==
    last.op = "move_construct"
        => /\ ~operator_bool(Cur, last.other)
           /\ get(Cur, last.self) = last.pre[last.other]
           /\ NoCall

\* C7 witness: an object was move-constructed from one holding a resource.
C7_Witness ==
    /\ last.op = "move_construct"
    /\ last.pre[last.other] # invalid
    /\ get(Cur, last.self) = last.pre[last.other]

\* C8: release() returns the value held, leaves the object holding
\* Traits::invalid() and calls Traits::close zero times; destroying the
\* object next calls it zero times; and an identifier release() returned is
\* never closed by any object unless it is passed in again.
C8_Release ==
    /\ last.op = "release"
        => /\ last.ret = last.pre[last.self]
           /\ ~operator_bool(Cur, last.self)
           /\ NoCall
    /\ (last.op = "destroy" /\ last.rel) => NoCall
    /\ \A v \in taken : introduced[v] = 1 => Count(closed, v) = 0

\* C8 witness: an object was destroyed right after release() returned a
\* resource identifier from it.
C8_Witness ==
    /\ last.op = "destroy"
    /\ last.rel
    /\ \E v \in taken : introduced[v] = 1

\* C9: swap exchanges the two values, changes no other object and calls
\* Traits::close zero times.
C9_Swap ==
    last.op = "swap"
        => /\ m_value[last.self] = last.pre[last.other]
           /\ m_value[last.other] = last.pre[last.self]
           /\ \A h \in Live \ {last.self, last.other} : m_value[h] = last.pre[h]
           /\ Live = DOMAIN last.pre
           /\ NoCall

\* C9 witness: an object holding a resource was swapped with an empty one.
C9_Witness ==
    /\ last.op = "swap"
    /\ last.self # last.other
    /\ last.pre[last.self] # invalid
    /\ last.pre[last.other] = invalid
    /\ m_value[last.other] = last.pre[last.self]

\* C10: move-assigning an object to itself changes no m_value and calls
\* Traits::close zero times.
C10_SelfMoveAssign ==
    (last.op = "move_assign" /\ last.self = last.other)
        => m_value = last.pre /\ NoCall

\* C10 witness: an object holding a resource was move-assigned to itself.
C10_Witness ==
    /\ last.op = "move_assign"
    /\ last.self = last.other
    /\ operator_bool(Cur, last.self)

\* The two logical states of an object, before and after the last operation.
WasEmpty(h) == h \in DOMAIN last.pre /\ last.pre[h] = invalid
WasOwning(h) == h \in DOMAIN last.pre /\ last.pre[h] # invalid
IsEmpty(h) == h \in Live /\ m_value[h] = invalid
IsOwning(h) == h \in Live /\ m_value[h] # invalid

\* The operations the specification lists for Empty -> Owning ...
ListedToOwning(h) ==
    \/ last.op = "reset" /\ last.self = h /\ last.value # invalid
    \/ /\ last.op = "move_assign" /\ last.self = h /\ last.other # h
       /\ last.pre[last.other] # invalid
\* ... for being created Owning ...
ListedBornOwning(h) ==
    \/ last.op = "construct" /\ last.self = h /\ last.value # invalid
    \/ /\ last.op = "move_construct" /\ last.self = h
       /\ last.pre[last.other] # invalid
\* ... and for Owning -> Empty.
ListedToEmpty(h) ==
    \/ last.op = "release" /\ last.self = h
    \/ last.op = "reset" /\ last.self = h /\ last.value = invalid
    \/ /\ last.op \in {"move_assign", "move_construct"}
       /\ last.other = h /\ last.self # h

\* Swap with an object in the other state.
SwappedWithOwning(h) ==
    /\ last.op = "swap"
    /\ \/ last.self = h /\ WasOwning(last.other)
       \/ last.other = h /\ WasOwning(last.self)
SwappedWithEmpty(h) ==
    /\ last.op = "swap"
    /\ \/ last.self = h /\ WasEmpty(last.other)
       \/ last.other = h /\ WasEmpty(last.self)

\* Move assignment from an Empty source onto h.
AssignedFromEmpty(h) ==
    /\ last.op = "move_assign" /\ last.self = h /\ last.other # h
    /\ last.pre[last.other] = invalid

C13_ResetReturn ==
    last.op = "reset"
        => /\ last.ok = operator_bool(Cur, last.self)
           /\ last.ok = (last.value # invalid)

\* C13 witness: reset with the resource identifier already held returned true.
C13_Witness ==
    /\ last.op = "reset"
    /\ last.pre[last.self] = last.value
    /\ last.value # invalid
    /\ last.ok

\* C14: an object constructed with value v holds v and is valid exactly
\* when v is not Traits::invalid(); the default argument is
\* Traits::invalid(); construction calls Traits::close zero times.
C14_Construct ==
    last.op = "construct"
        => /\ get(Cur, last.self) = last.value
           /\ operator_bool(Cur, last.self) = (last.value # invalid)
           /\ \A h \in DOMAIN last.pre : m_value[h] = last.pre[h]
           /\ NoCall

\* C14 witness: an object was constructed with a resource identifier.
C14_Witness ==
    /\ last.op = "construct"
    /\ last.value # invalid
    /\ operator_bool(Cur, last.self)

\* C16: get() and operator bool() return the held value and whether it
\* differs from Traits::invalid(); they change no m_value and call
\* Traits::close zero times, so the operations that follow start from the
\* state they would have started from without the call.
C16_Observers ==
    last.op \in {"get", "bool"}
        => /\ m_value = last.pre
           /\ NoCall
           /\ last.op = "get" => last.ret = last.pre[last.self]
           /\ last.op = "bool" => last.ok = (last.pre[last.self] # invalid)

\* C16 witness: get() was called on an object that holds a resource, which
\* it still holds.
C16_Witness ==
    /\ last.op = "get"
    /\ last.ret # invalid
    /\ m_value[last.self] = last.ret

\* ------------------------------------------- the single-object scenario
\* One unique_handle<null_handle_traits> H: default-constructed, reset any
\* number of times with any of three values, destroyed.
H == 1
ScenarioValues == {nullptr, 7, 42}

ScenarioStep(call) ==
    /\ trace' = Append(trace, call)
    /\ UNCHANGED <<Traits, introduced, taken, aliased>>
    /\ UNCHANGED <<verifyVars, sqlVars, exampleVars>>

\* null_handle H{};
ScenarioConstruct ==
    /\ trace = <<>>
    /\ Record("construct", H, H, invalid, unique_handle(Cur, H, invalid), invalid, FALSE)
    /\ ScenarioStep(<<"construct">>)

\* H.reset(v);
ScenarioReset(v) ==
    /\ H \in Live
    /\ Len(trace) <= MaxResets
    /\ LET r == reset(Cur, H, v)
       IN  Record("reset", H, H, v, r.st, invalid, r.ret)
    /\ ScenarioStep(<<"reset", v>>)

\* H goes out of scope
ScenarioDestroy ==
    /\ H \in Live
    /\ Record("destroy", H, H, m_value[H], dtor_unique_handle(Cur, H), invalid, FALSE)
    /\ ScenarioStep(<<"destroy">>)

InitScenario ==
    Init /\ Traits = "null_handle_traits"

NextScenario ==
    \/ ScenarioConstruct
    \/ \E v \in ScenarioValues : ScenarioReset(v)
    \/ ScenarioDestroy

SpecScenario == InitScenario /\ [][NextScenario]_vars

\* The calls of the end-to-end scenario.
EndToEnd ==
    <<(<<"construct">>), <<"reset", 42>>, <<"reset", 42>>, <<"reset", 7>>,
      (<<"destroy">>)>>

\* C11: default-construct H, reset(42), reset(42), reset(7), destroy: H is
\* invalid after construction, holds 42 with no Traits::close call after
\* each of the first two resets, holds 7 after the third, and the
\* Traits::close calls of the run are close(42), close(7).
C11_EndToEnd ==
    /\ trace = SubSeq(EndToEnd, 1, 1)
           => ~operator_bool(Cur, H) /\ closed = <<>>
    /\ trace \in {SubSeq(EndToEnd, 1, 2), SubSeq(EndToEnd, 1, 3)}
           => operator_bool(Cur, H) /\ get(Cur, H) = 42 /\ closed = <<>> /\ last.ok
    /\ trace = SubSeq(EndToEnd, 1, 4)
           => operator_bool(Cur, H) /\ get(Cur, H) = 7 /\ closed = <<42>>
    /\ trace = EndToEnd
           => Live = {} /\ closed = <<42, 7>>

\* C11 witness: the scenario has run to its end.
C11_Witness ==
    trace = EndToEnd /\ Len(closed) = 2

\* ------------------------------------------- a CloseHandle call that fails
\* ASSERT(expression), _ASSERTE: compiled only in Debug builds, where it
\* evaluates the expression and stops execution when it is false.
\* [evaluated |-> the expression is evaluated, continues |-> execution goes on]
ASSERT(b, expression) ==
    IF b = "debug"
    THEN [evaluated |-> TRUE, continues |-> expression]
    ELSE [evaluated |-> FALSE, continues |-> TRUE]

\* VERIFY defined as ASSERT in every build.
VERIFY_is_ASSERT(b, expression) ==
    ASSERT(b, expression)

\* VERIFY(expression): ASSERT in Debug builds, the expression itself in
\* other builds.
VERIFY(b, expression) ==
    IF b = "debug"
    THEN ASSERT(b, expression)
    ELSE [evaluated |-> TRUE, continues |-> TRUE]

\* An operation that ran from s0 to s1 on the assumption that CloseHandle
\* succeeds, when the CloseHandle call it makes (if any) returns ok:
\* Traits::close is VERIFY(CloseHandle(value)), so the call is made if
\* VERIFY evaluates its argument, and the operation stops at the call, with
\* the m_value members of that moment, if VERIFY stops execution.
\* [st |-> the state reached, continues |-> execution goes on]
WithCloseHandle(s0, s1, b, ok) ==
    IF s1.snap = <<>>
    THEN [st |-> s1, continues |-> TRUE]
    ELSE LET v == VERIFY(b, ok)
             log == IF v.evaluated THEN s1.log ELSE s0.log
         IN  IF v.continues
             THEN [st |-> [s1 EXCEPT !.log = log], continues |-> TRUE]
             ELSE [st |-> [s1 EXCEPT !.log = log, !.m = s1.snap[1]],
                   continues |-> FALSE]

\* What an operation of this run records.
RecordVerify(op, h, other, value, s1, ok) ==
    LET r == WithCloseHandle(Cur, s1, build, ok)
    IN  /\ Record(op, h, other, value, r.st, invalid, FALSE)
        /\ halted' = ~r.continues
        /\ closeFailed' = (s1.snap # <<>> /\ ~ok)
        /\ UNCHANGED <<Traits, build, taken>>
        /\ UNCHANGED <<scenarioVars, sqlVars, exampleVars>>

\* null_handle h{ value };
VerifyConstruct(h, v) ==
    /\ ~halted
    /\ h \notin Live
    /\ CanPass(v)
    /\ Pass(h, v)
    /\ RecordVerify("construct", h, h, v, unique_handle(Cur, h, v), TRUE)

\* h.reset(value);   CloseHandle returns ok
VerifyReset(h, v, ok) ==
    /\ ~halted
    /\ h \in Live
    /\ CanPass(v)
    /\ Pass(h, v)
    /\ RecordVerify("reset", h, h, v, reset(Cur, h, v).st, ok)

\* h = std::move(other);   CloseHandle returns ok
VerifyMoveAssign(h, other, ok) ==
    /\ ~halted
    /\ h \in Live
    /\ other \in Live
    /\ RecordVerify("move_assign", h, other, m_value[other],
                    operator_assign(Cur, h, other), ok)
    /\ UNCHANGED <<introduced, aliased>>

\* h goes out of scope;   CloseHandle returns ok
VerifyDestroy(h, ok) ==
    /\ ~halted
    /\ h \in Live
    /\ RecordVerify("destroy", h, h, m_value[h], dtor_unique_handle(Cur, h), ok)
    /\ UNCHANGED <<introduced, aliased>>

InitVerify ==
    /\ ExamplesIdle
    /\ Traits \in TraitsClasses
    /\ m_value = [h \in {} |-> nullptr]
    /\ closed = <<>>
    /\ introduced = [v \in Pointers |-> 0]
    /\ taken = {}
    /\ aliased = {}
    /\ trace = <<>>
    /\ build \in {"debug", "release"}
    /\ halted = FALSE
    /\ closeFailed = FALSE
    /\ handle = << >>
    /\ events = << >>
    /\ made = 0
    /\ asserted = TRUE
    /\ lastCall = [name |-> "none"]
    /\ pc = "none"
    /\ rows = 0
    /\ last = [op |-> "none", self |-> 0, other |-> 0, value |-> nullptr,
               pre |-> [h \in {} |-> nullptr], log |-> <<>>, rel |-> FALSE,
               snap |-> <<>>,
               ret |-> nullptr, ok |-> FALSE]

NextVerify ==
    \/ \E h \in Handles, v \in Pointers : VerifyConstruct(h, v)
    \/ \E h \in Handles, v \in Pointers, ok \in BOOLEAN : VerifyReset(h, v, ok)
    \/ \E h \in Handles, o \in Handles, ok \in BOOLEAN : VerifyMoveAssign(h, o, ok)
    \/ \E h \in Handles, ok \in BOOLEAN : VerifyDestroy(h, ok)

SpecVerify == InitVerify /\ [][NextVerify]_vars

\* The state before the last operation, and the state the operation
\* reaches from it when CloseHandle succeeds.
Before == [m |-> last.pre, log |-> last.log, snap |-> <<>>]
OnSuccess ==
    CASE last.op = "reset" -> reset(Before, last.self, last.value).st
      [] last.op = "move_assign" -> operator_assign(Before, last.self, last.other)
      [] last.op = "destroy" -> dtor_unique_handle(Before, last.self)
      [] OTHER -> Before

\* C15: when the CloseHandle call of an operation fails, a Debug build
\* stops at the assertion, before anything after the call has run; another
\* build goes on to the state a successful call leads to; in both builds
\* CloseHandle has been called exactly once with the value being closed.
C15_CloseFails ==
    closeFailed
        => /\ closed = Append(last.log, last.snap[1][last.self])
           /\ Len(last.snap) = 1
           /\ IF build = "debug"
              THEN halted /\ m_value = last.snap[1]
              ELSE ~halted /\ m_value = OnSuccess.m /\ closed = OnSuccess.log

\* C15 witness: in a build without _DEBUG a reset stored a new resource
\* identifier although closing the old one failed.
C15_Witness ==
    /\ closeFailed
    /\ build = "release"
    /\ last.op = "reset"
    /\ last.value # invalid
    /\ m_value[last.self] = last.value

\* C15 witness of the other build: a Debug build stopped at the assertion.
C15_WitnessDebug ==
    closeFailed /\ build = "debug" /\ halted /\ last.op = "destroy"

\* ------------------------------ KennyKerr::unique_handle (src/CppSqlite)
\* The objects are "conn" (Connection::handle), "stmt" (Statement::handle)
\* and "local" (the local of Connection::Open).  A connection or statement
\* pointer is nullptr or the number of the SQLite object.  The state the
\* member functions work on:
\*   m        : live unique_handle object -> m_value,
\*   ev       : the SQLite library calls so far,
\*   made     : the SQLite objects created so far,
\*   asserted : every ASSERT(!*this) so far has held.

\* Traits::Invalid(): nullptr for ConnectionHandleTraits,
\* StatementHandleTraits and null_handle_traits, INVALID_HANDLE_VALUE for
\* invalid_handle_traits
kk_Invalid ==
    IF Traits = "invalid_handle_traits" THEN INVALID_HANDLE_VALUE ELSE nullptr

\* ConnectionHandleTraits::Close: VERIFY(SQLITE_OK == sqlite3_close(value))
\* StatementHandleTraits::Close: VERIFY(SQLITE_OK == sqlite3_finalize(value))
\* null_handle_traits::Close, invalid_handle_traits::Close:
\* VERIFY(CloseHandle(value))
kk_Traits_Close(q, h, value) ==
    [q EXCEPT !.ev = Append(@, <<IF h = "stmt" THEN "sqlite3_finalize"
                                 ELSE IF h \in {"conn", "local"} THEN "sqlite3_close"
                                 ELSE "CloseHandle", value>>)]

\* explicit operator bool() const
kk_operator_bool(q, h) ==
    q.m[h] # kk_Invalid

\* Close()
kk_Close(q, h) ==
    IF kk_operator_bool(q, h) THEN kk_Traits_Close(q, h, q.m[h]) ELSE q

\* explicit unique_handle(pointer value = Traits::Invalid())
kk_unique_handle(q, h, value) ==
    [q EXCEPT !.m = [x \in DOMAIN q.m \cup {h} |-> IF x = h THEN value ELSE q.m[x]]]

\* A destructor that does not call Close().
kk_dtor_unique_handle_leaks(q, h) ==
    [q EXCEPT !.m = [x \in DOMAIN q.m \ {h} |-> q.m[x]]]

\* ~unique_handle()
kk_dtor_unique_handle(q, h) ==
    LET q1 == kk_Close(q, h)
    IN  [q1 EXCEPT !.m = [x \in DOMAIN q1.m \ {h} |-> q1.m[x]]]

\* get()
kk_get(q, h) ==
    q.m[h]

\* get_address_of(): ASSERT(!*this); return &m_value
kk_get_address_of(q, h) ==
    [q EXCEPT !.asserted = @ /\ ~kk_operator_bool(q, h)]

\* *address = value, by the function get_address_of()'s result was passed to
kk_store(q, h, value) ==
    [q EXCEPT !.m[h] = value]

\* release(): [st |-> the state after, ret |-> the returned value]
kk_release(q, h) ==
    LET value == q.m[h]
    IN  [st |-> [q EXCEPT !.m[h] = kk_Invalid], ret |-> value]

\* reset(pointer value = Traits::Invalid())
kk_reset(q, h, value) ==
    LET q1 == IF q.m[h] # value
              THEN [kk_Close(q, h) EXCEPT !.m[h] = value]
              ELSE q
    IN  [st |-> q1, ret |-> kk_operator_bool(q1, h)]

\* operator=(unique_handle && other)
kk_operator_assign(q, h, other) ==
    IF h # other
    THEN LET r == kk_release(q, other)
         IN  kk_reset(r.st, h, r.ret).st
    ELSE q

\* unique_handle(unique_handle && other)
kk_unique_handle_move(q, h, other) ==
    LET r == kk_release(q, other)
    IN  kk_unique_handle(r.st, h, r.ret)

\* swap(unique_handle<Traits> & other): std::swap(m_value, other.m_value)
kk_swap(q, h, other) ==
    [q EXCEPT !.m[h] = q.m[other], !.m[other] = q.m[h]]

\* non-member swap(left, right): left.swap(right)
kk_swap_nonmember(q, left, right) ==
    kk_swap(q, left, right)

\* ------------------------------------------- Connection and Statement
\* sqlite3_open(filename, ppDb): stores the new connection object, or
\* nullptr when it could not create one, through ppDb and returns result.
sqlite3_open(q, h, result, db) ==
    [kk_store(q, h, db) EXCEPT !.ev = Append(@, <<"sqlite3_open", db, result>>),
                               !.made = IF db # nullptr THEN @ + 1 ELSE @]

\* sqlite3_prepare_v2(db, text, n, ppStmt, tail): stores the new statement
\* object, or nullptr when it fails, through ppStmt and returns result.
sqlite3_prepare_v2(q, db, h, result, stmt) ==
    [kk_store(q, h, stmt) EXCEPT !.ev = Append(@, <<"sqlite3_prepare_v2", stmt, db, result>>),
                                 !.made = IF stmt # nullptr THEN @ + 1 ELSE @]

\* SqlException{ result, sqlite3_errmsg(db) }: the message is copied
SqlException(q, db) ==
    [q EXCEPT !.ev = Append(@, <<"sqlite3_errmsg", db>>)]

\* Connection::Open as written with handle.get_address_of() in place of a local.
Connection_Open_direct(q, result, db) ==
    LET q1 == sqlite3_open(kk_get_address_of(q, "conn"), "conn", result, db)
    IN  IF result # "SQLITE_OK"
        THEN [st |-> SqlException(q1, kk_get(q1, "conn")), thrown |-> TRUE]
        ELSE [st |-> q1, thrown |-> FALSE]

\* Connection::Open that moves local into handle before it tests the result.
Connection_Open_moves_first(q, result, db) ==
    LET q1 == kk_unique_handle(q, "local", kk_Invalid)
        q2 == sqlite3_open(kk_get_address_of(q1, "local"), "local", result, db)
        q3 == kk_operator_assign(q2, "conn", "local")
    IN  IF result # "SQLITE_OK"
        THEN [st |-> kk_dtor_unique_handle(SqlException(q3, kk_get(q3, "conn")), "local"),
              thrown |-> TRUE]
        ELSE [st |-> kk_dtor_unique_handle(q3, "local"), thrown |-> FALSE]

\* void Connection::Open(filename), sqlite3_open returning result and db:
\* [st |-> the state after, thrown |-> an SqlException left the function]
Connection_Open(q, result, db) ==
    LET q1 == kk_unique_handle(q, "local", kk_Invalid)
        q2 == sqlite3_open(kk_get_address_of(q1, "local"), "local", result, db)
    IN  IF result # "SQLITE_OK"
        THEN [st |-> kk_dtor_unique_handle(SqlException(q2, kk_get(q2, "local")), "local"),
              thrown |-> TRUE]
        ELSE [st |-> kk_dtor_unique_handle(kk_operator_assign(q2, "conn", "local"), "local"),
              thrown |-> FALSE]

\* Statement::Prepare without the handle.reset() it starts with.
Statement_Prepare_no_reset(q, result, stmt) ==
    LET q2 == sqlite3_prepare_v2(kk_get_address_of(q, "stmt"),
                                 kk_get(q, "conn"), "stmt", result, stmt)
    IN  IF result # "SQLITE_OK"
        THEN [st |-> SqlException(q2, kk_get(q2, "conn")), thrown |-> TRUE]
        ELSE [st |-> q2, thrown |-> FALSE]

\* void Statement::Prepare(conn, text), sqlite3_prepare_v2 returning result
\* and stmt: [st |-> the state after, thrown |-> an SqlException left the function]
Statement_Prepare(q, result, stmt) ==
    LET q1 == kk_reset(q, "stmt", kk_Invalid).st
        q2 == sqlite3_prepare_v2(kk_get_address_of(q1, "stmt"),
                                 kk_get(q1, "conn"), "stmt", result, stmt)
    IN  IF result # "SQLITE_OK"
        THEN [st |-> SqlException(q2, kk_get(q2, "conn")), thrown |-> TRUE]
        ELSE [st |-> q2, thrown |-> FALSE]

\* void Connection::Execute(text), sqlite3_exec returning result
Connection_Execute(q, result) ==
    LET q1 == [q EXCEPT !.asserted = @ /\ kk_operator_bool(q, "conn"),
                        !.ev = Append(@, <<"sqlite3_exec", kk_get(q, "conn"), result>>)]
    IN  IF result # "SQLITE_OK"
        THEN [st |-> SqlException(q1, kk_get(q1, "conn")), thrown |-> TRUE]
        ELSE [st |-> q1, thrown |-> FALSE]

\* sqlite3_db_handle(stmt): the connection the statement was prepared on
sqlite3_db_handle(q, stmt) ==
    LET i == CHOOSE j \in DOMAIN q.ev :
                 q.ev[j][1] = "sqlite3_prepare_v2" /\ q.ev[j][2] = stmt
    IN  q.ev[i][3]

\* bool Statement::Step(), sqlite3_step returning result:
\* ret is the returned value when no exception is thrown
Statement_Step(q, result) ==
    LET q1 == [q EXCEPT !.asserted = @ /\ kk_operator_bool(q, "stmt"),
                        !.ev = Append(@, <<"sqlite3_step", kk_get(q, "stmt"), result>>)]
    IN  IF result = "SQLITE_ROW" THEN [st |-> q1, thrown |-> FALSE, ret |-> TRUE]
        ELSE IF result = "SQLITE_DONE" THEN [st |-> q1, thrown |-> FALSE, ret |-> FALSE]
        ELSE [st |-> SqlException(q1, sqlite3_db_handle(q1, kk_get(q1, "stmt"))),
              thrown |-> TRUE, ret |-> FALSE]

\* ------------------------------------ runs of Connection and Statement
Sql == [m |-> handle, ev |-> events, made |-> made, asserted |-> asserted]

\* The state after a call, and what the call was.
SqlRecord(name, result, object, q1, thrown) ==
    /\ handle' = q1.m
    /\ events' = q1.ev
    /\ made' = q1.made
    /\ asserted' = q1.asserted
    /\ lastCall' = [name |-> name, result |-> result, object |-> object,
                    thrown |-> thrown, pre |-> handle, ev |-> events]
    /\ UNCHANGED <<handleVars, scenarioVars, verifyVars, exampleVars>>

\* The Open and Prepare calls made so far.
Calls ==
    Cardinality({i \in DOMAIN events :
                    events[i][1] \in {"sqlite3_open", "sqlite3_prepare_v2"}})

\* What sqlite3_open can return: SQLITE_OK with a connection object, or an
\* error code with or without one.
OpenOutcomes ==
    {<<"SQLITE_OK", made + 1>>, <<"SQLITE_ERROR", made + 1>>,
     <<"SQLITE_ERROR", nullptr>>}

\* What sqlite3_prepare_v2 can return: SQLITE_OK with a statement object, or
\* an error code without one.
PrepareOutcomes ==
    {<<"SQLITE_OK", made + 1>>, <<"SQLITE_ERROR", nullptr>>}

\* conn.Open(filename);
SqlOpen(o) ==
    /\ pc = "calls"
    /\ "conn" \in DOMAIN handle
    /\ Calls < MaxCalls
    /\ LET r == Connection_Open(Sql, o[1], o[2])
       IN  SqlRecord("Open", o[1], o[2], r.st, r.thrown)
    /\ UNCHANGED <<pc, rows>>

\* s.Prepare(conn, text);
SqlPrepare(o) ==
    /\ pc = "calls"
    /\ {"conn", "stmt"} \subseteq DOMAIN handle
    /\ Calls < MaxCalls
    /\ LET r == Statement_Prepare(Sql, o[1], o[2])
       IN  SqlRecord("Prepare", o[1], o[2], r.st, r.thrown)
    /\ UNCHANGED <<pc, rows>>

\* s goes out of scope
SqlDestroyStatement ==
    /\ pc = "calls"
    /\ "stmt" \in DOMAIN handle
    /\ SqlRecord("~Statement", "none", handle["stmt"],
                 kk_dtor_unique_handle(Sql, "stmt"), FALSE)
    /\ UNCHANGED <<pc, rows>>

\* conn goes out of scope, after s
SqlDestroyConnection ==
    /\ pc = "calls"
    /\ DOMAIN handle = {"conn"}
    /\ SqlRecord("~Connection", "none", handle["conn"],
                 kk_dtor_unique_handle(Sql, "conn"), FALSE)
    /\ UNCHANGED <<pc, rows>>

\* Connection conn; Statement s;
InitSql ==
    /\ ExamplesIdle
    /\ Traits = "null_handle_traits"
    /\ m_value = [h \in {} |-> nullptr]
    /\ closed = <<>>
    /\ introduced = [v \in Pointers |-> 0]
    /\ taken = {}
    /\ aliased = {}
    /\ trace = <<>>
    /\ build = "release"
    /\ halted = FALSE
    /\ closeFailed = FALSE
    /\ last = [op |-> "none", self |-> 0, other |-> 0, value |-> nullptr,
               pre |-> [h \in {} |-> nullptr], log |-> <<>>, rel |-> FALSE,
               snap |-> <<>>,
               ret |-> nullptr, ok |-> FALSE]
    /\ handle = [h \in {"conn", "stmt"} |-> kk_Invalid]
    /\ events = << >>
    /\ made = 0
    /\ asserted = TRUE
    /\ lastCall = [name |-> "none"]
    /\ pc = "calls"
    /\ rows = 0

NextSql ==
    \/ \E o \in OpenOutcomes : SqlOpen(o)
    \/ \E o \in PrepareOutcomes : SqlPrepare(o)
    \/ SqlDestroyStatement
    \/ SqlDestroyConnection

SpecSql == InitSql /\ [][NextSql]_vars

\* The library calls the last call made.
NewEvents ==
    SubSeq(events, Len(lastCall.ev) + 1, Len(events))

\* How many times the library call e was made.
EventCount(e) ==
    Cardinality({i \in DOMAIN events : events[i] = e})

\* The last call was an Open whose sqlite3_open failed with a connection object.
OpenFailedWithObject ==
    /\ lastCall.name = "Open"
    /\ lastCall.result # "SQLITE_OK"
    /\ lastCall.object # nullptr

\* C17: when sqlite3_open reports failure after it produced a connection
\* object, Open throws, that connection is closed exactly once, after its
\* error message was read for the exception, and the Connection's handle
\* (and every other handle) is what it was before the call.
C17_OpenFailureCloses ==
    OpenFailedWithObject =>
        /\ lastCall.thrown
        /\ EventCount(<<"sqlite3_close", lastCall.object>>) = 1
        /\ NewEvents = << <<"sqlite3_open", lastCall.object, lastCall.result>>,
                          <<"sqlite3_errmsg", lastCall.object>>,
                          <<"sqlite3_close", lastCall.object>> >>
        /\ handle = lastCall.pre

\* A failing Open with a connection object, on a Connection that owned one.
C17_Witness ==
    /\ OpenFailedWithObject
    /\ lastCall.pre["conn"] # nullptr

\* The SQLite object id is owned by a handle, or was closed or finalized.
Accounted(id) ==
    \/ \E h \in DOMAIN handle : handle[h] = id
    \/ EventCount(<<"sqlite3_close", id>>) + EventCount(<<"sqlite3_finalize", id>>) > 0

\* C18: after any sequence of Open and Prepare calls, every ASSERT(!*this)
\* of get_address_of() has held, and no connection or statement object was
\* overwritten: each one made is still owned or was closed or finalized.
C18_AddressOfEmpty ==
    /\ asserted
    /\ \A id \in 1..made : Accounted(id)

\* A successful Open on a Connection that owned a connection, and the
\* assertion held.
C18_Witness ==
    /\ lastCall.name = "Open"
    /\ lastCall.result = "SQLITE_OK"
    /\ lastCall.pre["conn"] # nullptr
    /\ asserted

\* The statement objects successful Prepare calls produced.
Prepared ==
    {events[i][2] : i \in {j \in DOMAIN events :
                              /\ events[j][1] = "sqlite3_prepare_v2"
                              /\ events[j][2] # nullptr}}

\* How many times the statement object id was finalized.
Finalized(id) ==
    EventCount(<<"sqlite3_finalize", id>>)

\* The Statement owns the statement object id.
Owned(id) ==
    "stmt" \in DOMAIN handle /\ handle["stmt"] = id

\* The last call finalized a statement only where the claim says: as the
\* first thing a Prepare does, or in the Statement's destructor.
FinalizedInPlace ==
    \A i \in DOMAIN NewEvents :
        NewEvents[i][1] = "sqlite3_finalize" =>
            \/ lastCall.name = "~Statement"
            \/ lastCall.name = "Prepare" /\ i = 1

\* C19: every statement object a successful Prepare produced is finalized
\* exactly once, at the start of the next Prepare or at the Statement's
\* destruction (until then it is the one the Statement owns), at most one
\* is owned at a time, and after a failed Prepare the handle is empty.
C19_PrepareSequence ==
    /\ \A id \in Prepared : Finalized(id) = (IF Owned(id) THEN 0 ELSE 1)
    /\ Cardinality({id \in Prepared : Finalized(id) = 0}) <= 1
    /\ lastCall.name # "none" => FinalizedInPlace
    /\ (lastCall.name = "Prepare" /\ lastCall.result # "SQLITE_OK") =>
           handle["stmt"] = nullptr

\* A Prepare that failed on a Statement that owned a prepared statement.
C19_Witness ==
    /\ lastCall.name = "Prepare"
    /\ lastCall.result # "SQLITE_OK"
    /\ lastCall.pre["stmt"] # nullptr

\* ------------------------------------------------- main (CppSqlite)
\* pc is the statement of main that runs next; "leave" is the end of the
\* try block reached normally, "unwind" the same reached by an exception.
AfterCall ==
    [Open |-> "Execute1", Execute1 |-> "Execute2", Execute2 |-> "Execute3",
     Execute3 |-> "Statement", Prepare1 |-> "Step1", Step1 |-> "Prepare2",
     Prepare2 |-> "Step2", Step2 |-> "Prepare3", Prepare3 |-> "Step3"]

\* Connection conn;
MainConnection ==
    /\ pc = "Connection"
    /\ SqlRecord("Connection", "none", kk_Invalid,
                 kk_unique_handle(Sql, "conn", kk_Invalid), FALSE)
    /\ pc' = "Open"
    /\ UNCHANGED rows

\* conn.Open("C:\\Temp\\Test.db");
MainOpen(o) ==
    /\ pc = "Open"
    /\ LET r == Connection_Open(Sql, o[1], o[2])
       IN  /\ SqlRecord("Open", o[1], o[2], r.st, r.thrown)
           /\ pc' = IF r.thrown THEN "unwind" ELSE AfterCall[pc]
    /\ UNCHANGED rows

\* conn.Execute("DROP TABLE Book"); conn.Execute("CREATE TABLE ...");
\* conn.Execute("INSERT INTO ...");
MainExecute(result) ==
    /\ pc \in {"Execute1", "Execute2", "Execute3"}
    /\ LET r == Connection_Execute(Sql, result)
       IN  /\ SqlRecord("Execute", result, handle["conn"], r.st, r.thrown)
           /\ pc' = IF r.thrown THEN "unwind" ELSE AfterCall[pc]
    /\ UNCHANGED rows

\* Statement s;
MainStatement ==
    /\ pc = "Statement"
    /\ SqlRecord("Statement", "none", kk_Invalid,
                 kk_unique_handle(Sql, "stmt", kk_Invalid), FALSE)
    /\ pc' = "Prepare1"
    /\ UNCHANGED rows

\* s.Prepare(conn, "SELECT ...");
MainPrepare(o) ==
    /\ pc \in {"Prepare1", "Prepare2", "Prepare3"}
    /\ LET r == Statement_Prepare(Sql, o[1], o[2])
       IN  /\ SqlRecord("Prepare", o[1], o[2], r.st, r.thrown)
           /\ pc' = IF r.thrown THEN "unwind" ELSE AfterCall[pc]
    /\ UNCHANGED rows

\* if (s.Step()) { TRACE(...); }
MainIfStep(result) ==
    /\ pc \in {"Step1", "Step2"}
    /\ LET r == Statement_Step(Sql, result)
       IN  /\ SqlRecord("Step", result, handle["stmt"], r.st, r.thrown)
           /\ pc' = IF r.thrown THEN "unwind" ELSE AfterCall[pc]
    /\ UNCHANGED rows

\* while (s.Step()) { TRACE(...); }
MainWhileStep(result) ==
    /\ pc = "Step3"
    /\ result = "SQLITE_ROW" => rows < MaxRows
    /\ LET r == Statement_Step(Sql, result)
       IN  /\ SqlRecord("Step", result, handle["stmt"], r.st, r.thrown)
           /\ pc' = IF r.thrown THEN "unwind"
                    ELSE IF r.ret THEN "Step3" ELSE "leave"
           /\ rows' = IF r.ret THEN rows + 1 ELSE rows

\* the try block is left: s is destroyed first, if it was constructed
MainDestroyStatement ==
    /\ pc \in {"leave", "unwind"}
    /\ "stmt" \in DOMAIN handle
    /\ SqlRecord("~Statement", "none", handle["stmt"],
                 kk_dtor_unique_handle(Sql, "stmt"), lastCall.thrown)
    /\ UNCHANGED <<pc, rows>>

\* the try block is left: conn is destroyed after s
MainDestroyConnection ==
    /\ pc \in {"leave", "unwind"}
    /\ DOMAIN handle = {"conn"}
    /\ SqlRecord("~Connection", "none", handle["conn"],
                 kk_dtor_unique_handle(Sql, "conn"), lastCall.thrown)
    /\ pc' = IF pc = "unwind" THEN "catch" ELSE "done"
    /\ UNCHANGED rows

\* catch (SqlException const & e) { TRACE(...); }
MainCatch ==
    /\ pc = "catch"
    /\ pc' = "done"
    /\ UNCHANGED <<handleVars, scenarioVars, verifyVars, exampleVars, handle, events,
                   made, asserted, lastCall, rows>>

\* What sqlite3_exec can return.
ExecOutcomes == {"SQLITE_OK", "SQLITE_ERROR"}

\* What sqlite3_step can return.
StepOutcomes == {"SQLITE_ROW", "SQLITE_DONE", "SQLITE_ERROR"}

\* main is entered
InitMain ==
    /\ ExamplesIdle
    /\ Traits = "null_handle_traits"
    /\ m_value = [h \in {} |-> nullptr]
    /\ closed = <<>>
    /\ introduced = [v \in Pointers |-> 0]
    /\ taken = {}
    /\ aliased = {}
    /\ trace = <<>>
    /\ build = "release"
    /\ halted = FALSE
    /\ closeFailed = FALSE
    /\ last = [op |-> "none", self |-> 0, other |-> 0, value |-> nullptr,
               pre |-> [h \in {} |-> nullptr], log |-> <<>>, rel |-> FALSE,
               snap |-> <<>>,
               ret |-> nullptr, ok |-> FALSE]
    /\ handle = << >>
    /\ events = << >>
    /\ made = 0
    /\ asserted = TRUE
    /\ lastCall = [name |-> "none"]
    /\ pc = "Connection"
    /\ rows = 0

NextMain ==
    \/ MainConnection
    \/ \E o \in OpenOutcomes : MainOpen(o)
    \/ \E result \in ExecOutcomes : MainExecute(result)
    \/ MainStatement
    \/ \E o \in PrepareOutcomes : MainPrepare(o)
    \/ \E result \in StepOutcomes : MainIfStep(result)
    \/ \E result \in StepOutcomes : MainWhileStep(result)
    \/ MainDestroyStatement
    \/ MainDestroyConnection
    \/ MainCatch

SpecMain == InitMain /\ [][NextMain]_vars

\* The connection objects sqlite3_open produced.
Opened ==
    {events[i][2] : i \in {j \in DOMAIN events :
                              /\ events[j][1] = "sqlite3_open"
                              /\ events[j][2] # nullptr}}

\* Open returned without an exception.
OpenSucceeded ==
    \E i \in DOMAIN events :
        events[i][1] = "sqlite3_open" /\ events[i][3] = "SQLITE_OK"

\* How many times sqlite3_close was called.
Closes ==
    Cardinality({i \in DOMAIN events : events[i][1] = "sqlite3_close"})

\* Whenever a connection is closed, every statement prepared on it was
\* finalized before that.
FinalizedBeforeClose ==
    \A i, j \in DOMAIN events :
        ( /\ events[i][1] = "sqlite3_prepare_v2"
          /\ events[i][2] # nullptr
          /\ events[j] = <<"sqlite3_close", events[i][3]>> ) =>
            \E k \in (i + 1)..(j - 1) :
                events[k] = <<"sqlite3_finalize", events[i][2]>>

\* When main is over every prepared statement was finalized, once.
AllFinalized ==
    pc = "done" => \A id \in Prepared : Finalized(id) = 1

\* C20 as stated: in main every prepared statement is finalized before
\* its connection is closed, and when main is over sqlite3_close was called
\* exactly once if and only if Open succeeded.
C20_ClosedIffOpenSucceeded ==
    /\ FinalizedBeforeClose
    /\ AllFinalized
    /\ pc = "done" => (Closes = 1 <=> OpenSucceeded)

\* C20: in main, on normal completion and on every path with an
\* SqlException, every prepared statement is finalized before its
\* connection is closed, and when main is over a connection was closed
\* exactly once if and only if sqlite3_open produced a connection object,
\* which it does whenever Open succeeds; nothing else is closed.
C20_MainCleanup ==
    /\ FinalizedBeforeClose
    /\ AllFinalized
    /\ pc = "done" =>
           /\ Closes = 1 <=> Opened # {}
           /\ Closes <= 1
           /\ \A db \in Opened : EventCount(<<"sqlite3_close", db>>) = 1
           /\ OpenSucceeded => Opened # {}

\* main is over after an SqlException left the try block with a statement
\* prepared.
C20_Witness ==
    /\ pc = "done"
    /\ Prepared # {}
    /\ \E i \in DOMAIN events : events[i][1] = "sqlite3_errmsg"

\* main is over after Open failed with a connection object.
C20_WitnessOpenFailed ==
    /\ pc = "done"
    /\ Opened # {}
    /\ ~OpenSucceeded

\* ------------------------------------------------ FileMappingDemo
\* The objects of FileMappingDemo are "file" (an invalid_handle), "map"
\* (a null_handle) and "view" (a std::unique_ptr<char, map_view_deleter>).
\* The state the member functions work on:
\*   m  : live object -> the value it holds,
\*   ev : the Windows API calls that obtain or release a resource, in
\*        call order, each with the value obtained or released.

\* The unique_handle runs, the SQLite wrappers and main are not running.
CoreIdle ==
    /\ m_value = [h \in {} |-> nullptr]
    /\ closed = <<>>
    /\ introduced = [v \in Pointers |-> 0]
    /\ taken = {}
    /\ aliased = {}
    /\ trace = <<>>
    /\ build = "release"
    /\ halted = FALSE
    /\ closeFailed = FALSE
    /\ last = [op |-> "none", self |-> 0, other |-> 0, value |-> nullptr,
               pre |-> [h \in {} |-> nullptr], log |-> <<>>, rel |-> FALSE,
               snap |-> <<>>,
               ret |-> nullptr, ok |-> FALSE]
    /\ handle = << >>
    /\ events = << >>
    /\ made = 0
    /\ asserted = TRUE
    /\ lastCall = [name |-> "none"]
    /\ pc = "none"
    /\ rows = 0

coreVars == <<handleVars, scenarioVars, verifyVars, sqlVars>>

\* What FileMappingDemo leaves alone.
notDemo == <<coreVars, sw, pair, par, hanoi>>

\* invalid_handle_traits::invalid() for file, null_handle_traits::invalid()
\* for map; a unique_ptr is empty when it holds nullptr
demo_invalid(h) ==
    IF h = "file" THEN INVALID_HANDLE_VALUE ELSE nullptr

\* Traits::close(value): VERIFY(CloseHandle(value));
\* map_view_deleter::operator()(value): VERIFY(UnmapViewOfFile(value))
demo_Traits_close(d, h, value) ==
    [d EXCEPT !.ev = Append(@, <<IF h = "view" THEN "UnmapViewOfFile"
                                               ELSE "CloseHandle", value>>)]

\* explicit operator bool() const
demo_operator_bool(d, h) ==
    d.m[h] # demo_invalid(h)

\* close(); for view, what ~unique_ptr does: get_deleter()(get()) unless
\* get() == nullptr
demo_close(d, h) ==
    IF demo_operator_bool(d, h) THEN demo_Traits_close(d, h, d.m[h]) ELSE d

\* explicit unique_handle(pointer value); explicit unique_ptr(pointer p)
demo_unique_handle(d, h, value) ==
    [d EXCEPT !.m = [x \in DOMAIN d.m \cup {h} |-> IF x = h THEN value ELSE d.m[x]]]

\* reset() that closes the handle and keeps holding it.
demo_reset_keeps(d, h, value) ==
    IF d.m[h] # value THEN demo_close(d, h) ELSE d

\* bool reset(pointer value = Traits::invalid())
demo_reset(d, h, value) ==
    IF d.m[h] # value
    THEN [demo_close(d, h) EXCEPT !.m[h] = value]
    ELSE d

\* ~unique_handle(); ~unique_ptr()
demo_dtor(d, h) ==
    LET d1 == demo_close(d, h)
    IN  [d1 EXCEPT !.m = [x \in DOMAIN d1.m \ {h} |-> d1.m[x]]]

\* A call of the API function name that returned value.
Api(d, name, value) ==
    [d EXCEPT !.ev = Append(@, <<name, value>>)]

\* The values the system can hand out.
DemoValues == 1..MaxValue

\* The handle values that are open: obtained and not closed since.
OpenHandles(d) ==
    {d.m[h] : h \in DOMAIN d.m \cap {"file", "map"}} \ {INVALID_HANDLE_VALUE, nullptr}

\* auto file = invalid_handle{ CreateFile(...) }; if (!file) return;
FmCreateFile(value) ==
    /\ demo.pc = "CreateFile"
    /\ LET d == demo_unique_handle(Api(demo, "CreateFile", value), "file", value)
       IN  demo' = [d EXCEPT !.pc = IF ~demo_operator_bool(d, "file")
                                    THEN "return" ELSE "GetFileSizeEx"]
    /\ UNCHANGED notDemo

\* if (!GetFileSizeEx(file.get(), &size)) return;
FmGetFileSizeEx(ok) ==
    /\ demo.pc = "GetFileSizeEx"
    /\ demo' = [demo EXCEPT !.pc = IF ~ok THEN "return" ELSE "size"]
    /\ UNCHANGED notDemo

\* if (size.QuadPart == 0) return;
FmCheckSize(empty) ==
    /\ demo.pc = "size"
    /\ demo' = [demo EXCEPT !.pc = IF empty THEN "return" ELSE "CreateFileMapping"]
    /\ UNCHANGED notDemo

\* auto map = null_handle{ CreateFileMapping(file.get(), ...) }; if (!map) return;
FmCreateFileMapping(value) ==
    /\ demo.pc = "CreateFileMapping"
    /\ value \notin OpenHandles(demo)
    /\ LET d == demo_unique_handle(Api(demo, "CreateFileMapping", value), "map", value)
       IN  demo' = [d EXCEPT !.pc = IF ~demo_operator_bool(d, "map")
                                    THEN "return" ELSE "reset"]
    /\ UNCHANGED notDemo

\* file.reset();
FmResetFile ==
    /\ demo.pc = "reset"
    /\ demo' = [demo_reset(demo, "file", demo_invalid("file")) EXCEPT !.pc = "MapViewOfFile"]
    /\ UNCHANGED notDemo

\* auto view = std::unique_ptr<char, map_view_deleter>{ MapViewOfFile(map.get(), ...) };
\* if (!view) return;
FmMapViewOfFile(value) ==
    /\ demo.pc = "MapViewOfFile"
    /\ LET d == demo_unique_handle(Api(demo, "MapViewOfFile", value), "view", value)
       IN  demo' = [d EXCEPT !.pc = IF ~demo_operator_bool(d, "view")
                                    THEN "return" ELSE "print"]
    /\ UNCHANGED notDemo

\* cout << size << ":" << view.get() << " ";
FmPrint ==
    /\ demo.pc = "print"
    /\ demo' = [demo EXCEPT !.pc = "return"]
    /\ UNCHANGED notDemo

\* return: the locals are destroyed in the reverse order of their
\* construction, view, then map, then file.
FmDestroyView ==
    /\ demo.pc = "return"
    /\ "view" \in DOMAIN demo.m
    /\ demo' = demo_dtor(demo, "view")
    /\ UNCHANGED notDemo

FmDestroyMap ==
    /\ demo.pc = "return"
    /\ "map" \in DOMAIN demo.m
    /\ "view" \notin DOMAIN demo.m
    /\ demo' = demo_dtor(demo, "map")
    /\ UNCHANGED notDemo

FmDestroyFile ==
    /\ demo.pc = "return"
    /\ DOMAIN demo.m = {"file"}
    /\ demo' = [demo_dtor(demo, "file") EXCEPT !.pc = "done"]
    /\ UNCHANGED notDemo

\* FileMappingDemo is called
InitFileMapping ==
    /\ CoreIdle
    /\ Traits = "null_handle_traits"
    /\ sw = [pc |-> "none"]
    /\ pair = [passes |-> 0]
    /\ par = [main |-> "none"]
    /\ hanoi = [pc |-> "none"]
    /\ demo = [pc |-> "CreateFile", m |-> << >>, ev |-> << >>]

NextFileMapping ==
    \/ \E value \in DemoValues \cup {INVALID_HANDLE_VALUE} : FmCreateFile(value)
    \/ \E ok \in BOOLEAN : FmGetFileSizeEx(ok)
    \/ \E empty \in BOOLEAN : FmCheckSize(empty)
    \/ \E value \in DemoValues \cup {nullptr} : FmCreateFileMapping(value)
    \/ FmResetFile
    \/ \E value \in DemoValues \cup {nullptr} : FmMapViewOfFile(value)
    \/ FmPrint
    \/ FmDestroyView
    \/ FmDestroyMap
    \/ FmDestroyFile

SpecFileMapping == InitFileMapping /\ [][NextFileMapping]_vars

\* The API function that releases what the API function name obtained.
ReleasedBy(name) ==
    IF name = "MapViewOfFile" THEN "UnmapViewOfFile" ELSE "CloseHandle"

\* The value the API function name returns when it fails.
FailureOf(name) ==
    IF name = "CreateFile" THEN INVALID_HANDLE_VALUE ELSE nullptr

Obtaining == {"CreateFile", "CreateFileMapping", "MapViewOfFile"}

\* The positions in demo.ev of the valid resources obtained.
Obtained ==
    {i \in DOMAIN demo.ev : /\ demo.ev[i][1] \in Obtaining
                            /\ demo.ev[i][2] # FailureOf(demo.ev[i][1])}

\* The positions in demo.ev of the release calls.
Releases ==
    {i \in DOMAIN demo.ev : demo.ev[i][1] \in {"CloseHandle", "UnmapViewOfFile"}}

\* The positions where the resource obtained at position i is released.
ReleasesOf(i) ==
    {j \in Releases : /\ j > i
                      /\ demo.ev[j] = <<ReleasedBy(demo.ev[i][1]), demo.ev[i][2]>>}

\* The position where the API function name was called, 0 when it was not.
CallOf(name) ==
    IF \E i \in DOMAIN demo.ev : demo.ev[i][1] = name
    THEN CHOOSE i \in DOMAIN demo.ev : demo.ev[i][1] = name
    ELSE 0

\* C21: on every path through FileMappingDemo each valid resource obtained
\* is released at most once, exactly once when the function has returned,
\* every release call releases a resource that was obtained (so a failed
\* result is never released), the file handle is closed by file.reset()
\* and not again, and the view is unmapped before the mapping is closed.
C21_FileMapping ==
    /\ \A i \in Obtained : Cardinality(ReleasesOf(i)) <= 1
    /\ demo.pc = "done" => \A i \in Obtained : Cardinality(ReleasesOf(i)) = 1
    /\ \A j \in Releases : \E i \in Obtained : j \in ReleasesOf(i)
    /\ Cardinality(Releases) <= Cardinality(Obtained)
    /\ demo.pc \in {"MapViewOfFile", "print"} =>
           Cardinality(ReleasesOf(CallOf("CreateFile"))) = 1
    /\ \A i, j \in Obtained :
           (demo.ev[i][1] = "CreateFileMapping" /\ demo.ev[j][1] = "MapViewOfFile") =>
               \A k \in ReleasesOf(i) : \E l \in ReleasesOf(j) : l < k

\* FileMappingDemo has returned after it mapped the view.
C21_Witness ==
    /\ demo.pc = "done"
    /\ \E i \in Obtained : demo.ev[i][1] = "MapViewOfFile"

\* ---------------------------------------------------- SwapHandles
\* std::swap(first, second), the generic swap:
\*     auto temp = std::move(first); first = std::move(second);
\*     second = std::move(temp);     and temp is destroyed.
\* sw.before is the state when swap is called, sw.now the state reached.

\* The values the two handles can hold when they are swapped.
SwapValues == Pointers \cup DemoValues

\* What SwapHandles leaves alone.
notSw == <<Traits, m_value, closed, introduced, taken, aliased, last,
           scenarioVars, verifyVars, sqlVars, demo, pair, par, hanoi>>

\* unique_handle temp{ std::move(first) };
SwMoveConstruct ==
    /\ sw.pc = "generic"
    /\ sw' = [sw EXCEPT !.pc = "first = second",
                        !.now = unique_handle_move(sw.now, "temp", "first")]
    /\ UNCHANGED notSw

\* first = std::move(second);
SwAssignFirst ==
    /\ sw.pc = "first = second"
    /\ sw' = [sw EXCEPT !.pc = "second = temp",
                        !.now = operator_assign(sw.now, "first", "second")]
    /\ UNCHANGED notSw

\* second = std::move(temp);
SwAssignSecond ==
    /\ sw.pc = "second = temp"
    /\ sw' = [sw EXCEPT !.pc = "~temp",
                        !.now = operator_assign(sw.now, "second", "temp")]
    /\ UNCHANGED notSw

\* temp goes out of scope
SwDestroyTemp ==
    /\ sw.pc = "~temp"
    /\ sw' = [sw EXCEPT !.pc = "generic done",
                        !.now = dtor_unique_handle(sw.now, "temp")]
    /\ UNCHANGED notSw

\* first.swap(second);
SwMemberSwap ==
    /\ sw.pc = "member"
    /\ sw' = [sw EXCEPT !.pc = "member done",
                        !.now = swap(sw.now, "first", "second")]
    /\ UNCHANGED notSw

\* auto first = null_handle{ ... }; auto second = null_handle{ ... };
\* and one of the two swaps is about to be called
InitSwap ==
    /\ CoreIdle
    /\ Traits \in TraitsClasses
    /\ demo = [pc |-> "none"]
    /\ pair = [passes |-> 0]
    /\ par = [main |-> "none"]
    /\ hanoi = [pc |-> "none"]
    /\ \E a, b \in SwapValues, which \in {"generic", "member"} :
        LET s0 == unique_handle(unique_handle([m |-> << >>, log |-> << >>, snap |-> << >>],
                                              "first", a), "second", b)
        IN  sw = [pc |-> which, before |-> s0, now |-> s0]

NextSwap ==
    \/ SwMoveConstruct
    \/ SwAssignFirst
    \/ SwAssignSecond
    \/ SwDestroyTemp
    \/ SwMemberSwap

SpecSwap == InitSwap /\ [][NextSwap]_vars

\* C22: when the generic swap is over, first and second hold what the
\* member swap makes them hold from the same state (each other's value),
\* no other object is left, and Traits::close was not called.
C22_GenericSwap ==
    sw.pc = "generic done" =>
        /\ sw.now.m = swap(sw.before, "first", "second").m
        /\ sw.now.m["first"] = sw.before.m["second"]
        /\ sw.now.m["second"] = sw.before.m["first"]
        /\ sw.now.log = << >>

\* The generic swap of two handles that own different resources is over.
C22_Witness ==
    /\ sw.pc = "generic done"
    /\ operator_bool(sw.before, "first")
    /\ operator_bool(sw.before, "second")
    /\ sw.before.m["first"] # sw.before.m["second"]

\* ------------------------------------- the two unique_handle classes
\* pair.a is the state of SmartClassesExamples::unique_handle objects,
\* pair.b that of KennyKerr::unique_handle objects; every operation is
\* applied to both.  pair.ret is what the operation returned in each
\* (<<invalid, invalid>> when it returns nothing), pair.passes how many
\* resource values were passed to a constructor or to reset.

\* What the paired run leaves alone.
notPair == <<Traits, m_value, closed, introduced, taken, aliased, last,
             scenarioVars, verifyVars, sqlVars, demo, sw, par, hanoi>>

\* The state an operation starts from, in each class.
PairA == [pair.a EXCEPT !.snap = << >>]
PairB == pair.b

\* The objects of the paired run.
PairHandles == {"first", "second"}

PairLive == DOMAIN pair.a.m

PairCanPass(v) ==
    v # invalid => pair.passes < MaxPasses

\* The state after an operation, in both classes.
Both(op, a1, b1, ret) ==
    /\ pair' = [a |-> a1, b |-> b1, ret |-> ret, op |-> op,
                passes |-> pair.passes]
    /\ UNCHANGED notPair

\* The same, for an operation that is passed the value v.
BothPassing(op, v, a1, b1, ret) ==
    /\ pair' = [a |-> a1, b |-> b1, ret |-> ret, op |-> op,
                passes |-> IF v # invalid THEN pair.passes + 1 ELSE pair.passes]
    /\ UNCHANGED notPair

\* unique_handle h{ value };
PairConstruct(h, v) ==
    /\ h \notin PairLive
    /\ PairCanPass(v)
    /\ BothPassing("construct", v, unique_handle(PairA, h, v),
                   kk_unique_handle(PairB, h, v), <<invalid, invalid>>)

\* unique_handle h{ std::move(other) };
PairMoveConstruct(h, other) ==
    /\ h \notin PairLive
    /\ other \in PairLive
    /\ Both("move_construct", unique_handle_move(PairA, h, other),
            kk_unique_handle_move(PairB, h, other), <<invalid, invalid>>)

\* h = std::move(other);
PairMoveAssign(h, other) ==
    /\ h \in PairLive
    /\ other \in PairLive
    /\ Both("move_assign", operator_assign(PairA, h, other),
            kk_operator_assign(PairB, h, other), <<invalid, invalid>>)

\* h.release();
PairRelease(h) ==
    /\ h \in PairLive
    /\ LET ra == release(PairA, h)
           rb == kk_release(PairB, h)
       IN  Both("release", ra.st, rb.st, <<ra.ret, rb.ret>>)

\* h.reset(value);
PairReset(h, v) ==
    /\ h \in PairLive
    /\ PairCanPass(v)
    /\ LET ra == reset(PairA, h, v)
           rb == kk_reset(PairB, h, v)
       IN  BothPassing("reset", v, ra.st, rb.st, <<ra.ret, rb.ret>>)

\* swap(h, other);
PairSwap(h, other) ==
    /\ h \in PairLive
    /\ other \in PairLive
    /\ Both("swap", swap_nonmember(PairA, h, other),
            kk_swap_nonmember(PairB, h, other), <<invalid, invalid>>)

\* h goes out of scope
PairDestroy(h) ==
    /\ h \in PairLive
    /\ Both("destroy", dtor_unique_handle(PairA, h),
            kk_dtor_unique_handle(PairB, h), <<invalid, invalid>>)

\* no object of either class has been constructed
InitPair ==
    /\ CoreIdle
    /\ Traits \in TraitsClasses
    /\ demo = [pc |-> "none"]
    /\ sw = [pc |-> "none"]
    /\ par = [main |-> "none"]
    /\ hanoi = [pc |-> "none"]
    /\ pair = [a |-> [m |-> << >>, log |-> << >>, snap |-> << >>],
               b |-> [m |-> << >>, ev |-> << >>, made |-> 0, asserted |-> TRUE],
               ret |-> <<invalid, invalid>>, op |-> "none", passes |-> 0]

NextPair ==
    \/ \E h \in PairHandles, v \in Pointers : PairConstruct(h, v)
    \/ \E h, other \in PairHandles : PairMoveConstruct(h, other)
    \/ \E h, other \in PairHandles : PairMoveAssign(h, other)
    \/ \E h \in PairHandles : PairRelease(h)
    \/ \E h \in PairHandles, v \in Pointers : PairReset(h, v)
    \/ \E h, other \in PairHandles : PairSwap(h, other)
    \/ \E h \in PairHandles : PairDestroy(h)

SpecPair == InitPair /\ [][NextPair]_vars

\* The values KennyKerr's Traits::Close was called with, in call order.
ClosedB ==
    [i \in DOMAIN pair.b.ev |-> pair.b.ev[i][2]]

\* C23: after every operation the objects of the two classes hold the same
\* values, the two Traits classes were called to close the same values in
\* the same order, and the operation returned the same in both.
C23_SameBehaviour ==
    /\ pair.a.m = pair.b.m
    /\ pair.a.log = ClosedB
    /\ pair.ret[1] = pair.ret[2]

\* Both classes have closed two handles, the second one in a move
\* assignment.
C23_Witness ==
    /\ Len(pair.a.log) >= 2
    /\ pair.op = "move_assign"
    /\ pair.a.snap # << >>

\* C24: in a move assignment onto an object that owns a resource, when
\* Traits::close is called the target has not adopted other's value yet
\* and other still holds its value.
C24_MoveAssignOrder ==
    ( /\ last.op = "move_assign"
      /\ last.self # last.other
      /\ last.pre[last.self] # invalid
      /\ last.snap # << >> ) =>
        /\ last.snap[1][last.self] = last.pre[last.self]
        /\ last.snap[1][last.other] = last.pre[last.other]

\* The sentinel of the instantiation's Traits class, and the sentinel of
\* the other Traits class.
OwnSentinel ==
    IF Traits = "null_handle_traits" THEN nullptr ELSE INVALID_HANDLE_VALUE

OtherSentinel ==
    IF Traits = "null_handle_traits" THEN INVALID_HANDLE_VALUE ELSE nullptr

\* The last operation was a destruction, or a reset with another value.
DestroyedOrReset ==
    \/ last.op = "destroy"
    \/ last.op = "reset" /\ last.value # last.pre[last.self]

\* C25: operator bool() is false exactly when the object holds the sentinel
\* of its own Traits class; an object that holds the sentinel of the other
\* Traits class is valid, and its destruction or reset passes that value to
\* Traits::close, while one that holds its own sentinel closes nothing.
C25_OwnSentinel ==
    /\ last.op = "bool" => last.ok = (last.pre[last.self] # OwnSentinel)
    /\ \A h \in Live : operator_bool(Cur, h) = (m_value[h] # OwnSentinel)
    /\ (DestroyedOrReset /\ last.pre[last.self] = OtherSentinel) =>
           OneCall(OtherSentinel)
    /\ (DestroyedOrReset /\ last.pre[last.self] = OwnSentinel) => NoCall

\* An object that held the sentinel of the other Traits class was
\* destroyed, and that value was closed.
C25_Witness ==
    /\ last.op = "destroy"
    /\ last.pre[last.self] = OtherSentinel
    /\ OneCall(OtherSentinel)

\* ----------------------------- main (CppParallelismAndConcurrency)
\* par.main is the statement of main that runs next.  par.th maps each
\* thread that can run a Count loop ("main" itself, "task" for the PPL
\* task, "async" for the std::async thread) to where it is in the loop, its
\* loop variable i, the value it read for ++m_counter and the counter object
\* it works on.  par.m_counter maps sc and fc to their m_counter, par.out is
\* what was written to cout, par.then whether the continuation is attached,
\* par.cont whether it has run, par.policy how std::async launched the
\* lambda.

\* for (int i = 1; i <= 3; ++i)
LoopCount == 3

\* What the parallelism demo leaves alone.
notPar == <<Traits, m_value, closed, introduced, taken, aliased, last,
            scenarioVars, verifyVars, sqlVars, demo, sw, pair, hanoi>>

\* A thread that runs no Count loop, and one that enters the loop of obj.
NoLoop == [pc |-> "idle", i |-> 0, tmp |-> 0, obj |-> "none"]
EnterLoop(obj) == [pc |-> "test", i |-> 1, tmp |-> 0, obj |-> obj]

\* The places of a Count loop; a thread at one of them is executing Count.
LoopPcs == {"test", "sleep", "print", "inc_read", "inc_write", "next", "space"}

\* One step of the loop of SlowCounter::Count / of the lambda of
\* FutureCounter::Count, made by thread t:
\*     i <= 3; sleep_for(1s); cout << m_counter; ++m_counter (a read
\*     and a write); ++i; and after the loop cout << " ".
Counter_Count(p, t) ==
    LET c == p.th[t]
    IN  CASE c.pc = "test" ->
                 [p EXCEPT !.th[t].pc = IF c.i <= LoopCount THEN "sleep" ELSE "space"]
          [] c.pc = "sleep" ->
                 [p EXCEPT !.th[t].pc = "print"]
          [] c.pc = "print" ->
                 [p EXCEPT !.th[t].pc = "inc_read",
                           !.out = Append(@, p.m_counter[c.obj])]
          [] c.pc = "inc_read" ->
                 [p EXCEPT !.th[t].pc = "inc_write",
                           !.th[t].tmp = p.m_counter[c.obj]]
          [] c.pc = "inc_write" ->
                 [p EXCEPT !.th[t].pc = "next",
                           !.m_counter[c.obj] = c.tmp + 1]
          [] c.pc = "next" ->
                 [p EXCEPT !.th[t].pc = "test", !.th[t].i = c.i + 1]
          [] c.pc = "space" ->
                 [p EXCEPT !.th[t].pc = "finished", !.out = Append(@, " ")]

\* wait() that returns without waiting.
task_wait_returns_at_once(p) ==
    TRUE

\* task::wait() on the task then() returned: returns when the continuation
\* has run
task_wait(p) ==
    p.cont = "finished"

\* future::get() returns when the asynchronous lambda has finished
future_get(p) ==
    p.th["async"].pc = "finished"

\* a thread executes the next step of its Count loop
ParCount(t) ==
    /\ par.th[t].pc \in LoopPcs
    /\ par' = Counter_Count(par, t)
    /\ UNCHANGED notPar

\* SlowCounter sc; sc.Count();   (the call)
ParCallCount ==
    /\ par.main = "sc.Count"
    /\ par' = [par EXCEPT !.main = "in sc.Count", !.th["main"] = EnterLoop("sc")]
    /\ UNCHANGED notPar

\* sc.Count() returns
ParCountReturns ==
    /\ par.main = "in sc.Count"
    /\ par.th["main"].pc = "finished"
    /\ par' = [par EXCEPT !.main = "create_task", !.th["main"] = NoLoop]
    /\ UNCHANGED notPar

\* concurrency::create_task([&]() { sc.Count(); })
ParCreateTask ==
    /\ par.main = "create_task"
    /\ par' = [par EXCEPT !.main = "then", !.th["task"] = EnterLoop("sc")]
    /\ UNCHANGED notPar

\* .then([]() { cout << "end "; })
ParThen ==
    /\ par.main = "then"
    /\ par' = [par EXCEPT !.main = "wait", !.then = TRUE]
    /\ UNCHANGED notPar

\* the continuation runs once the task has finished: cout << "end ";
ParContinuation ==
    /\ par.then
    /\ par.cont = "waiting"
    /\ par.th["task"].pc = "finished"
    /\ par' = [par EXCEPT !.cont = "finished", !.out = Append(@, "end ")]
    /\ UNCHANGED notPar

\* .wait();
ParWait ==
    /\ par.main = "wait"
    /\ task_wait(par)
    /\ par' = [par EXCEPT !.main = "fc.Count"]
    /\ UNCHANGED notPar

\* FutureCounter fc; fc.Count(): std::async starts the lambda on a new
\* thread or defers it to get(), as the implementation chooses
ParAsync(policy) ==
    /\ par.main = "fc.Count"
    /\ par' = [par EXCEPT !.main = "get", !.policy = policy,
                          !.th["async"] = IF policy = "async"
                                          THEN EnterLoop("fc") ELSE @]
    /\ UNCHANGED notPar

\* .get() of a deferred lambda runs it on the calling thread
ParGetDeferred ==
    /\ par.main = "get"
    /\ par.policy = "deferred"
    /\ par' = [par EXCEPT !.main = "in get", !.th["main"] = EnterLoop("fc")]
    /\ UNCHANGED notPar

\* .get() returns
ParGetReturns ==
    /\ \/ par.main = "get" /\ par.policy = "async" /\ future_get(par)
       \/ par.main = "in get" /\ par.th["main"].pc = "finished"
    /\ par' = [par EXCEPT !.main = "return"]
    /\ UNCHANGED notPar

\* return 0;
ParReturn ==
    /\ par.main = "return"
    /\ par' = [par EXCEPT !.main = "done"]
    /\ UNCHANGED notPar

ParThreads == {"main", "task", "async"}

\* main is entered; SlowCounter() and FutureCounter() set m_counter to 1
InitPar ==
    /\ CoreIdle
    /\ Traits = "null_handle_traits"
    /\ demo = [pc |-> "none"]
    /\ sw = [pc |-> "none"]
    /\ pair = [passes |-> 0]
    /\ hanoi = [pc |-> "none"]
    /\ par = [main |-> "sc.Count",
              th |-> [t \in ParThreads |-> NoLoop],
              m_counter |-> [sc |-> 1, fc |-> 1],
              out |-> << >>, then |-> FALSE, cont |-> "waiting",
              policy |-> "none"]

NextPar ==
    \/ \E t \in ParThreads : ParCount(t)
    \/ ParCallCount
    \/ ParCountReturns
    \/ ParCreateTask
    \/ ParThen
    \/ ParContinuation
    \/ ParWait
    \/ \E policy \in {"async", "deferred"} : ParAsync(policy)
    \/ ParGetDeferred
    \/ ParGetReturns
    \/ ParReturn

SpecPar == InitPar /\ [][NextPar]_vars

\* What main writes to cout.
ExpectedOutput ==
    <<1, 2, 3, " ", 4, 5, 6, " ", "end ", 1, 2, 3, " ">>

\* The threads that are executing a Count loop.
Counting ==
    {t \in ParThreads : par.th[t].pc \in LoopPcs}

\* The threads whose next step reads or writes the m_counter of obj.
Accessing(obj) ==
    {t \in ParThreads : /\ par.th[t].obj = obj
                        /\ par.th[t].pc \in {"print", "inc_read", "inc_write"}}

\* C26: at most one Count loop executes at any time and main executes none
\* of its statements meanwhile, no m_counter is about to be accessed by two
\* threads, "end " is written only when the task's Count has finished, and
\* what is written is always the beginning of 123 456 end 123, all of it
\* when main returns.
C26_Sequential ==
    /\ Cardinality(Counting) <= 1
    /\ Counting # {} => par.main \in {"in sc.Count", "then", "wait", "get", "in get"}
    /\ (Counting # {} /\ par.main = "then") => Counting = {"task"}
    /\ \A obj \in {"sc", "fc"} : Cardinality(Accessing(obj)) <= 1
    /\ par.cont = "finished" => par.th["task"].pc = "finished"
    /\ Len(par.out) <= Len(ExpectedOutput)
    /\ par.out = SubSeq(ExpectedOutput, 1, Len(par.out))
    /\ par.main = "done" => par.out = ExpectedOutput

\* main has returned after the asynchronous lambda ran on its own thread.
C26_Witness ==
    /\ par.main = "done"
    /\ par.policy = "async"
    /\ par.th["async"].pc = "finished"

\* ------------------------------------------------- towerOfHanoi
\* towerOfHanoi writes one line "source -> dest" per move; the operator
\* gives the moves written, in order, each as <<origin, destination>>.
\* hanoi.num, source, dest, temp are the arguments of the outermost call,
\* hanoi.moves what it wrote, hanoi.done how many of the moves have been
\* replayed, hanoi.pegs the disks on each peg (bottom first; disk 1 is the
\* smallest), hanoi.legal whether every replayed move took the top disk of
\* a peg that had one and put it on an empty peg or on a larger disk.

\* What towerOfHanoi leaves alone.
notHanoi == <<Traits, m_value, closed, introduced, taken, aliased, last,
              scenarioVars, verifyVars, sqlVars, demo, sw, pair, par>>

\* towerOfHanoi whose second recursive call moves the disks from source
\* instead of from temp.
RECURSIVE towerOfHanoi_from_source(_, _, _, _)
towerOfHanoi_from_source(num, source, dest, temp) ==
    IF num > 0
    THEN towerOfHanoi_from_source(num - 1, source, temp, dest)
             \o << <<source, dest>> >>
             \o towerOfHanoi_from_source(num - 1, source, dest, temp)
    ELSE << >>

\* void towerOfHanoi(int num, int source, int dest, int temp)
RECURSIVE towerOfHanoi(_, _, _, _)
towerOfHanoi(num, source, dest, temp) ==
    IF num > 0
    THEN towerOfHanoi(num - 1, source, temp, dest)
             \o << <<source, dest>> >>
             \o towerOfHanoi(num - 1, temp, dest, source)
    ELSE << >>

\* The labels of the pegs.
Pegs == 1..3

\* The disks num, num - 1, ..., 1, the largest at the bottom.
Stacked(num) ==
    [i \in 1..num |-> num + 1 - i]

\* The top disk of a peg that has one.
Top(peg) ==
    peg[Len(peg)]

\* Taking the top disk of peg from and putting it on peg to is allowed.
Legal(pegs, from, to) ==
    /\ pegs[from] # << >>
    /\ pegs[to] # << >> => Top(pegs[to]) > Top(pegs[from])

\* The pegs after the top disk of peg from was put on peg to.
Move(pegs, from, to) ==
    IF pegs[from] = << >> THEN pegs
    ELSE [pegs EXCEPT ![from] = SubSeq(@, 1, Len(@) - 1),
                      ![to] = Append(@, Top(pegs[from]))]

\* towerOfHanoi(num, source, dest, temp) is called and returns
HanoiCall ==
    /\ hanoi.pc = "call"
    /\ hanoi' = [hanoi EXCEPT !.pc = "replay",
                              !.moves = towerOfHanoi(hanoi.num, hanoi.source,
                                                     hanoi.dest, hanoi.temp)]
    /\ UNCHANGED notHanoi

\* the next move written is made on the pegs
HanoiReplay ==
    /\ hanoi.pc = "replay"
    /\ hanoi.done < Len(hanoi.moves)
    /\ LET move == hanoi.moves[hanoi.done + 1]
       IN  hanoi' = [hanoi EXCEPT !.done = @ + 1,
                                  !.legal = @ /\ Legal(hanoi.pegs, move[1], move[2]),
                                  !.pegs = Move(hanoi.pegs, move[1], move[2])]
    /\ UNCHANGED notHanoi

\* every move written was made
HanoiEnd ==
    /\ hanoi.pc = "replay"
    /\ hanoi.done = Len(hanoi.moves)
    /\ hanoi' = [hanoi EXCEPT !.pc = "done"]
    /\ UNCHANGED notHanoi

\* any number of disks from 0 to MaxDisks, stacked by size on source, and
\* any three distinct pegs
InitHanoi ==
    /\ CoreIdle
    /\ Traits = "null_handle_traits"
    /\ demo = [pc |-> "none"]
    /\ sw = [pc |-> "none"]
    /\ pair = [passes |-> 0]
    /\ par = [main |-> "none"]
    /\ \E num \in 0..MaxDisks, source, dest, temp \in Pegs :
        /\ Cardinality({source, dest, temp}) = 3
        /\ hanoi = [pc |-> "call", num |-> num, source |-> source,
                    dest |-> dest, temp |-> temp, moves |-> << >>, done |-> 0,
                    legal |-> TRUE,
                    pegs |-> [p \in Pegs |-> IF p = source THEN Stacked(num)
                                             ELSE << >>]]

NextHanoi ==
    \/ HanoiCall
    \/ HanoiReplay
    \/ HanoiEnd

SpecHanoi == InitHanoi /\ [][NextHanoi]_vars

\* No disk of the peg lies on a smaller one.
Ordered(peg) ==
    \A i, j \in DOMAIN peg : i < j => peg[i] > peg[j]

\* C27: towerOfHanoi(num, source, dest, temp) with num >= 0 and three
\* distinct pegs returns after writing exactly 2^num - 1 moves; replayed
\* from num disks stacked by size on source, every move takes the top disk
\* of a peg that has one, no disk is ever on a smaller one, and after the
\* last move all the disks are on dest.
C27_TowerOfHanoi ==
    /\ hanoi.pc # "call" => Len(hanoi.moves) = 2 ^ hanoi.num - 1
    /\ hanoi.legal
    /\ \A p \in Pegs : Ordered(hanoi.pegs[p])
    /\ hanoi.pc = "done" =>
           /\ hanoi.pegs[hanoi.dest] = Stacked(hanoi.num)
           /\ hanoi.pegs[hanoi.source] = << >>
           /\ hanoi.pegs[hanoi.temp] = << >>

\* The moves of a tower of at least three disks were all replayed.
C27_Witness ==
    /\ hanoi.pc = "done"
    /\ hanoi.num >= 3
    /\ hanoi.done = Len(hanoi.moves)
    /\ hanoi.done > 0

====
